---------------------------- MODULE Spec2Model ----------------------------
(***************************************************************************)
(* Three independent Arduino sketches of championbro/pithypython:          *)
(*   adaptive : light_sensor_led_estimator_auto_Version3.ino, lines 1-188  *)
(*   sound    : the same file after "=== listen to blink ===", 190-294     *)
(*   fixed    : unnamed/part_000 (fixed-threshold light estimator)         *)
(* One sketch runs on the device; the variable sketch says which.  Every   *)
(* call of loop() is one action.  Time is counted in clock ticks; the      *)
(* intervals are scaled down (see the bounds) and the millisecond clock    *)
(* wraps at ClockMod instead of 2^32.                                      *)
(*                                                                         *)
(* Names used by more than one sketch carry a prefix: A_/a_ adaptive,      *)
(* F_/f_ fixed, S_/s_ sound.                                               *)
(***************************************************************************)
EXTENDS Integers, Sequences, FiniteSets, Bags, TLC

----------------------------------------------------------------------------
(* Bounds of the model.  All times are in milliseconds, as in the code,    *)
(* and the clock is read at multiples of TickMs; an hour is shortened to   *)
(* SamplesPerHour sample periods and a day to HoursPerDay hours.           *)

SamplesPerHour == 2       \* 3600 in the code: HOUR_INTERVAL_MS / SAMPLE_INTERVAL_MS
HoursPerDay == 2          \* 24 in the code: DAY_INTERVAL_MS / HOUR_INTERVAL_MS
WrapPeriods == 2          \* millis() wraps after 2^32 ms, about 49.7 days;
                          \* here after so many of the sketch's longest period
MaxGap == 2               \* most ticks that pass between two reads of millis()
F_MAX_SAMPLES == 2        \* 3600 in the code (fixed-threshold sketch, line 12)
S_MAX_SAMPLES == 2        \* 8640 in the code (sound sketch, line 200)
MaxRange == 20            \* learned ranges up to this width are enumerated
Margin == 2               \* arguments this far outside the nominal domain
UnitLen == 3              \* longest buffer handed to a function on its own
OverflowLen == 65         \* length of the one long buffer, of full-scale
                          \* readings, handed to the hourly average

(* Program constants.                                                      *)
ADC_MAX == 1023           \* largest analogRead() value, the dayMin sentinel
BEEP_MS == 200            \* delay(200) of the beep loops
TONE_HZ == 1000           \* tone(BUZZER_PIN, 1000)
MAX_BEEPS == 3            \* if (count > 3) count = 3
FULL_SCALE == 1024        \* (value * 4) / 1024
TOLERANCE == 5            \* maxv <= minv + 5
INT_BITS == 16            \* width of int on the AVR target

\* adaptive sketch, lines 31-33
SAMPLE_INTERVAL_MS == 1000
HOUR_INTERVAL_MS == SamplesPerHour * SAMPLE_INTERVAL_MS
DAY_INTERVAL_MS == HoursPerDay * HOUR_INTERVAL_MS

\* fixed-threshold sketch, part_000 lines 5-12
ledThreshold1 == 300
ledThreshold2 == 600
ledThreshold3 == 900
F_SAMPLE_INTERVAL == 1000
F_HOUR_INTERVAL == SamplesPerHour * F_SAMPLE_INTERVAL

\* sound sketch, lines 192-200; the sampling window is MAX_SAMPLES periods
LED1 == 2
LED2 == 3
LED3 == 4
S_SAMPLE_INTERVAL == 10000
SAMPLING_DURATION == S_MAX_SAMPLES * S_SAMPLE_INTERVAL
DONE_DELAY_MS == 2000     \* delay(2000) once sampling is done
BLINK_MS == 500           \* delay(500) of the LED phase

(* The readings analogRead() returns in the runs explored.                 *)
Readings == {0, 300, 1023}

\* analogRead() where it is called only if a sample is due; -1: not called
AnalogRead(due) == IF due THEN Readings ELSE {-1}

----------------------------------------------------------------------------
VARIABLES
    sketch,            \* which sketch is flashed: "adaptive", "fixed", "sound"
    pc,                \* "boot" before setup(), "loop" afterwards
    clock,             \* millis() at the last read of the clock
    \* adaptive sketch
    a_lastSampleTime, a_lastHourTime, a_dayStartTime,
    hourSum, hourCount, dayMin, dayMax,
    a_out,             \* what the last call of loop() did (Serial, buzzer)
    a_daySeen,         \* history: the readings sampled since setup() or the
    a_dayCount,        \*   last daily reset, and how many there were
    \* fixed-threshold sketch
    lightSamples, f_sampleCount, f_lastSampleTime, f_lastHourTime,
    f_out,             \* what the last call of loop() did
    \* sound sketch
    samples, s_sampleCount, startTime, samplingDone,
    minLevel, medianLevel, maxLevel,
    s_lastSampleTime,  \* the static local of loop()
    s_leds,            \* the LED pins that are HIGH
    s_out,             \* what the last call of loop() did
    calcRuns,          \* how often calculateThresholds() has run
    \* a function of a sketch called on its own
    fn, arg, res

a_vars == <<a_lastSampleTime, a_lastHourTime, a_dayStartTime,
            hourSum, hourCount, dayMin, dayMax, a_out, a_daySeen, a_dayCount>>
f_vars == <<lightSamples, f_sampleCount, f_lastSampleTime, f_lastHourTime, f_out>>

s_vars == <<samples, s_sampleCount, startTime, samplingDone,
            minLevel, medianLevel, maxLevel, s_lastSampleTime, s_leds, s_out,
            calcRuns>>

u_vars == <<fn, arg, res>>

vars == <<sketch, pc, clock, a_vars, f_vars, s_vars, u_vars>>

----------------------------------------------------------------------------
(* The clock.                                                              *)

\* resolution of the clock in the model: the light sketches' delay(200),
\* the sound sketch's delay(2000)
TickMs == IF sketch = "sound" THEN DONE_DELAY_MS ELSE BEEP_MS

\* the unsigned long clock wraps at ClockMod (2^32 in the code)
ClockMod ==
    WrapPeriods * (CASE sketch = "fixed" -> F_HOUR_INTERVAL
                     [] sketch = "sound" -> SAMPLING_DURATION
                     [] OTHER -> DAY_INTERVAL_MS)

\* the time that can pass between two reads of millis() in successive calls
\* of loop(), and between two reads in the same call
Gaps == {k * TickMs : k \in 0..MaxGap}
InGaps == {0, TickMs}

----------------------------------------------------------------------------
(* C arithmetic.                                                           *)

\* unsigned long subtraction / addition of the millisecond clock
USub(a, b) == (a - b + ClockMod) % ClockMod
UAdd(a, b) == (a + b) % ClockMod

\* the two clock values compared directly, without the subtraction
Due_direct(now, last, interval) == now >= last + interval

\* the test "now - last >= interval" on unsigned long
Due(now, last, interval) == USub(now, last) >= interval

\* C integer division truncates toward zero
CDiv(a, b) == IF a >= 0 THEN a \div b ELSE -((-a) \div b)

\* a value stored in an unsigned int of INT_BITS bits
ToUInt(x) == LET m == 2 ^ INT_BITS IN ((x % m) + m) % m

\* a value stored in an int: two's complement of INT_BITS bits
ToInt(x) ==
    LET m == 2 ^ INT_BITS
        r == ToUInt(x)
    IN  IF r >= m \div 2 THEN r - m ELSE r

\* unsigned division.  Both divisions of the sketches are guarded, so x / 0
\* is never evaluated; all ones stands for its undefined result.
UDiv(a, b) == IF b = 0 THEN -1 ELSE a \div b

Min2(a, b) == IF a < b THEN a ELSE b

----------------------------------------------------------------------------
(* Adaptive sketch: utility functions.                                     *)

\* if (maxv <= minv + 5): no range learned yet
A_degenerate(minv, maxv) == maxv <= minv + TOLERANCE

\* the upper clamp lost
A_fallbackBand_unclamped(value) ==
    LET band == CDiv(ToInt(value * 4), FULL_SCALE)
    IN  IF band < 0 THEN 0 ELSE band

\* the fallback: int band = (value * 4) / 1024, clamped to 0..3
A_fallbackBand(value) ==
    LET band == CDiv(ToInt(value * 4), FULL_SCALE)
    IN  IF band < 0 THEN 0 ELSE IF band > 3 THEN 3 ELSE band

\* the quartiles taken of maxv instead of the range
A_thresholds_ofMax(minv, maxv) ==
    <<ToInt(minv + ToInt(CDiv(maxv, 4))),
      ToInt(minv + ToInt(CDiv(maxv, 2))),
      ToInt(minv + ToInt(CDiv(3 * maxv, 4)))>>

\* <<t1, t2, t3>>: the quartiles of the day's range, lines 167-170
A_thresholds(minv, maxv) ==
    LET range == maxv - minv
    IN  <<ToInt(minv + ToInt(CDiv(range, 4))),
          ToInt(minv + ToInt(CDiv(range, 2))),
          ToInt(minv + ToInt(CDiv(3 * range, 4)))>>

\* int estimateLEDs(int value, int minv, int maxv)
A_estimateLEDs(value, minv, maxv) ==
    IF A_degenerate(minv, maxv)
    THEN A_fallbackBand(value)
    ELSE LET t == A_thresholds(minv, maxv)
         IN  IF value < t[1] THEN 0
             ELSE IF value < t[2] THEN 1
             ELSE IF value < t[3] THEN 2
             ELSE 3

\* the gap follows every pulse, the last one too
BeepPass_trailingGap(i, count) ==
    <<  <<"tone", TONE_HZ>>, <<"delay", BEEP_MS>>, <<"noTone", 0>>,
        <<"delay", BEEP_MS>> >>

\* the events of one pass of the for loop of beepCount, i of count
BeepPass(i, count) ==
    <<  <<"tone", TONE_HZ>>, <<"delay", BEEP_MS>>, <<"noTone", 0>> >>
    \o (IF i < count - 1 THEN << <<"delay", BEEP_MS>> >> ELSE << >>)

RECURSIVE BeepLoop(_, _)
BeepLoop(i, count) ==
    IF i < count THEN BeepPass(i, count) \o BeepLoop(i + 1, count) ELSE << >>

\* void beepCount(int count): the buzzer and delay calls it makes, in order
beepCount(count) ==
    IF count <= 0 THEN << >>
    ELSE BeepLoop(0, IF count > MAX_BEEPS THEN MAX_BEEPS ELSE count)

\* milliseconds a sequence of buzzer events blocks the loop for
RECURSIVE DelayMs(_)
DelayMs(events) ==
    IF events = << >> THEN 0
    ELSE (IF Head(events)[1] = "delay" THEN Head(events)[2] ELSE 0)
         + DelayMs(Tail(events))

\* the guard lets a count of zero through
A_hasSamples_orZero(count) == count >= 0

\* if (hourCount > 0) of line 104
A_hasSamples(count) == count > 0

\* the estimate taken over the sentinel range, as if the daily reset had
\* come before the report
A_hourlyReport_afterReset(sum, count, minv, maxv) ==
    LET divided == A_hasSamples(count)
        avg == IF divided THEN ToInt(UDiv(sum, count)) ELSE 0
        est == IF divided THEN A_estimateLEDs(avg, ADC_MAX, 0) ELSE 0
    IN  [divided |-> divided, avg |-> avg, hourlyEstimate |-> est,
         beeps |-> beepCount(est)]

\* the "Hourly reporting & beep" block, as a function of what it reads
A_hourlyReport(sum, count, minv, maxv) ==
    LET divided == A_hasSamples(count)
        avg == IF divided THEN ToInt(UDiv(sum, count)) ELSE 0
        est == IF divided THEN A_estimateLEDs(avg, minv, maxv) ELSE 0
    IN  [divided |-> divided, avg |-> avg, hourlyEstimate |-> est,
         beeps |-> beepCount(est)]

----------------------------------------------------------------------------
(* Adaptive sketch: globals, setup() and loop().                           *)

NoOut == [now |-> 0, sampled |-> FALSE, lightValue |-> -1, estimate |-> -1,
          hourly |-> FALSE, samples |-> 0, divided |-> FALSE, avg |-> 0,
          hourlyEstimate |-> 0, beeps |-> << >>, reset |-> FALSE]

A_globals ==
    /\ a_lastSampleTime = 0 /\ a_lastHourTime = 0 /\ a_dayStartTime = 0
    /\ hourSum = 0 /\ hourCount = 0
    /\ dayMin = ADC_MAX /\ dayMax = 0
    /\ a_out = NoOut
    /\ a_daySeen = {} /\ a_dayCount = 0

\* the two sentinels swapped
A_sentinel_swapped == [dayMin |-> 0, dayMax |-> ADC_MAX]

\* dayMin = 1023; dayMax = 0; of setup() and of the daily reset
A_sentinel == [dayMin |-> ADC_MAX, dayMax |-> 0]

\* only the minimum is learned
A_learn_minOnly(lightValue, minv, maxv) ==
    [dayMin |-> IF lightValue < minv THEN lightValue ELSE minv,
     dayMax |-> maxv]

\* lines 83-84: if (lightValue < dayMin) dayMin = lightValue;
\*              if (lightValue > dayMax) dayMax = lightValue;
A_learn(lightValue, minv, maxv) ==
    [dayMin |-> IF lightValue < minv THEN lightValue ELSE minv,
     dayMax |-> IF lightValue > maxv THEN lightValue ELSE maxv]

\* the sum cleared, the count of the hour kept
A_cleared_sumOnly == [hourSum |-> 0, hourCount |-> hourCount]

\* hourSum = 0; hourCount = 0; at the end of the hourly block
A_cleared == [hourSum |-> 0, hourCount |-> 0]

\* setup(): three reads of millis(); the clock may tick between two reads
A_setup ==
    /\ sketch = "adaptive" /\ pc = "boot"
    /\ \E d1 \in Gaps, d2 \in Gaps :
          /\ a_lastSampleTime' = clock
          /\ a_lastHourTime' = UAdd(clock, d1)
          /\ a_dayStartTime' = UAdd(clock, d1 + d2)
          /\ clock' = UAdd(clock, d1 + d2)
    /\ dayMin' = A_sentinel.dayMin /\ dayMax' = A_sentinel.dayMax
    /\ pc' = "loop"
    /\ UNCHANGED <<sketch, hourSum, hourCount, a_out, a_daySeen, a_dayCount,
                   f_vars, s_vars, u_vars>>

\* loop(): gap milliseconds have passed since the clock was last read
A_loop ==
    /\ sketch = "adaptive" /\ pc = "loop"
    /\ \E gap \in Gaps :
       \E lightValue \in AnalogRead(Due(UAdd(clock, gap), a_lastSampleTime,
                                       SAMPLE_INTERVAL_MS)) :
        LET now == UAdd(clock, gap)
            \* -- Sampling
            sampleDue == Due(now, a_lastSampleTime, SAMPLE_INTERVAL_MS)
            sum1 == IF sampleDue THEN hourSum + lightValue ELSE hourSum
            cnt1 == IF sampleDue THEN hourCount + 1 ELSE hourCount
            min1 == IF sampleDue THEN A_learn(lightValue, dayMin, dayMax).dayMin
                    ELSE dayMin
            max1 == IF sampleDue THEN A_learn(lightValue, dayMin, dayMax).dayMax
                    ELSE dayMax
            \* -- Hourly reporting & beep
            hourDue == Due(now, a_lastHourTime, HOUR_INTERVAL_MS)
            rep == A_hourlyReport(sum1, cnt1, min1, max1)
            \* -- Daily reset
            dayDue == Due(now, a_dayStartTime, DAY_INTERVAL_MS)
        IN  /\ a_lastSampleTime' = IF sampleDue
                                   THEN UAdd(a_lastSampleTime, SAMPLE_INTERVAL_MS)
                                   ELSE a_lastSampleTime
            /\ a_lastHourTime' = IF hourDue
                                 THEN UAdd(a_lastHourTime, HOUR_INTERVAL_MS)
                                 ELSE a_lastHourTime
            /\ hourSum' = IF hourDue THEN A_cleared.hourSum ELSE sum1
            /\ hourCount' = IF hourDue THEN A_cleared.hourCount ELSE cnt1
            /\ dayMin' = IF dayDue THEN A_sentinel.dayMin ELSE min1
            /\ dayMax' = IF dayDue THEN A_sentinel.dayMax ELSE max1
            /\ a_daySeen' = IF dayDue THEN {}
                            ELSE IF sampleDue THEN a_daySeen \cup {lightValue}
                            ELSE a_daySeen
            /\ a_dayCount' = IF dayDue THEN 0
                             ELSE IF sampleDue THEN a_dayCount + 1
                             ELSE a_dayCount
            /\ a_dayStartTime' = IF dayDue
                                 THEN UAdd(a_dayStartTime, DAY_INTERVAL_MS)
                                 ELSE a_dayStartTime
            /\ a_out' = [now |-> now,
                         sampled |-> sampleDue,
                         lightValue |-> IF sampleDue THEN lightValue ELSE -1,
                         estimate |-> IF sampleDue
                                      THEN A_estimateLEDs(lightValue, min1, max1)
                                      ELSE -1,
                         hourly |-> hourDue,
                         samples |-> IF hourDue THEN cnt1 ELSE 0,
                         divided |-> hourDue /\ rep.divided,
                         avg |-> IF hourDue THEN rep.avg ELSE 0,
                         hourlyEstimate |-> IF hourDue THEN rep.hourlyEstimate ELSE 0,
                         beeps |-> IF hourDue THEN rep.beeps ELSE << >>,
                         reset |-> dayDue]
            /\ clock' = IF hourDue THEN UAdd(now, DelayMs(rep.beeps)) ELSE now
    /\ UNCHANGED <<sketch, pc, f_vars, s_vars, u_vars>>

NextAdaptive == A_setup \/ A_loop

----------------------------------------------------------------------------
(* Fixed-threshold sketch (unnamed/part_000).                              *)

\* <= for <: a reading on a threshold falls into the band below
F_estimateLEDs_inclusive(value) ==
    IF value <= ledThreshold1 THEN 0
    ELSE IF value <= ledThreshold2 THEN 1
    ELSE IF value <= ledThreshold3 THEN 2
    ELSE 3

\* int estimateLEDs(int value)
F_estimateLEDs(value) ==
    IF value < ledThreshold1 THEN 0
    ELSE IF value < ledThreshold2 THEN 1
    ELSE IF value < ledThreshold3 THEN 2
    ELSE 3

\* lightSamples[i] as the averaging loop reads it.  i < sampleCount, and
\* sampleCount <= MAX_SAMPLES (C1), so the read is never outside the array.
F_cell(buf, i) == IF i \in DOMAIN buf THEN buf[i] ELSE 0

\* lightSamples[i] + ... + lightSamples[n - 1] as an integer: the size of
\* the bag that holds index j lightSamples[j] times
F_cellSum(buf, i, n) ==
    LET idx == {j \in i..(n - 1) : F_cell(buf, j) > 0}
    IN  BagCardinality([j \in idx |-> F_cell(buf, j)])

\* for (i = 0; i < sampleCount; i++) avg += lightSamples[i];
\* int avg plus unsigned int is computed unsigned and stored back into the
\* int.  Unsigned addition is addition modulo 2^INT_BITS, so the wraps of the
\* single steps compose to one wrap of the sum.
F_accumulate(avg, buf, i, n) ==
    IF i < n THEN ToInt(ToUInt(avg) + F_cellSum(buf, i, n)) ELSE avg

\* if (sampleCount > 0) of line 48
F_hasSamples(n) == n > 0

\* the average block of the hourly report, lines 47-53
F_average(buf, n) ==
    IF F_hasSamples(n)
    THEN ToInt(UDiv(ToUInt(F_accumulate(0, buf, 0, n)), n))
    ELSE 0

\* for (i = 0; i < beepCount; i++) { tone; delay(200); noTone; delay(200); }
RECURSIVE F_beepLoop(_, _)
F_beepLoop(i, n) ==
    IF i < n
    THEN << <<"tone", TONE_HZ>>, <<"delay", BEEP_MS>>,
            <<"noTone", 0>>, <<"delay", BEEP_MS>> >> \o F_beepLoop(i + 1, n)
    ELSE << >>

\* the hourly block, lines 47-69, as a function of what it reads
F_hourlyReport(buf, n) ==
    LET avg == F_average(buf, n)
        bc == F_estimateLEDs(avg)
    IN  [divided |-> F_hasSamples(n), avg |-> avg, beepCount |-> bc,
         beeps |-> F_beepLoop(0, bc)]

\* lightSamples[idx] = v; the array holds F_MAX_SAMPLES cells
F_store(buf, idx, v) ==
    IF idx \in DOMAIN buf THEN [buf EXCEPT ![idx] = v] ELSE buf

F_NoOut == [now |-> 0, sampled |-> FALSE, lightValue |-> -1, written |-> -1, nLEDs |-> -1,
            hourly |-> FALSE, samples |-> 0, divided |-> FALSE, avg |-> 0,
            beepCount |-> 0, beeps |-> << >>]

F_globals ==
    /\ lightSamples = [i \in 0..(F_MAX_SAMPLES - 1) |-> 0]
    /\ f_sampleCount = 0
    /\ f_lastSampleTime = 0 /\ f_lastHourTime = 0
    /\ f_out = F_NoOut

\* setup(): two reads of millis(); the clock may tick between them
F_setup ==
    /\ sketch = "fixed" /\ pc = "boot"
    /\ \E d1 \in Gaps :
          /\ f_lastSampleTime' = clock
          /\ f_lastHourTime' = UAdd(clock, d1)
          /\ clock' = UAdd(clock, d1)
    /\ pc' = "loop"
    /\ UNCHANGED <<sketch, lightSamples, f_sampleCount, f_out, a_vars, s_vars, u_vars>>

\* off by one: the cell after the last one is written too
F_hasRoom_offByOne(n) == n <= F_MAX_SAMPLES

\* if (sampleCount < MAX_SAMPLES) of line 33
F_hasRoom(n) == n < F_MAX_SAMPLES

F_loop ==
    /\ sketch = "fixed" /\ pc = "loop"
    /\ \E gap \in Gaps :
       \E lightValue \in AnalogRead(Due(UAdd(clock, gap), f_lastSampleTime,
                                       F_SAMPLE_INTERVAL)) :
        LET now == UAdd(clock, gap)
            sampleDue == Due(now, f_lastSampleTime, F_SAMPLE_INTERVAL)
            stored == sampleDue /\ F_hasRoom(f_sampleCount)
            buf1 == IF stored THEN F_store(lightSamples, f_sampleCount, lightValue)
                    ELSE lightSamples
            cnt1 == IF stored THEN f_sampleCount + 1 ELSE f_sampleCount
            hourDue == Due(now, f_lastHourTime, F_HOUR_INTERVAL)
            rep == F_hourlyReport(buf1, cnt1)
        IN  /\ f_lastSampleTime' = IF sampleDue THEN now ELSE f_lastSampleTime
            /\ lightSamples' = buf1
            /\ f_lastHourTime' = IF hourDue THEN now ELSE f_lastHourTime
            /\ f_sampleCount' = IF hourDue THEN 0 ELSE cnt1
            /\ f_out' = [now |-> now,
                         sampled |-> sampleDue,
                         lightValue |-> IF sampleDue THEN lightValue ELSE -1,
                         written |-> IF stored THEN f_sampleCount ELSE -1,
                         nLEDs |-> IF sampleDue THEN F_estimateLEDs(lightValue) ELSE -1,
                         hourly |-> hourDue,
                         samples |-> IF hourDue THEN cnt1 ELSE 0,
                         divided |-> hourDue /\ rep.divided,
                         avg |-> IF hourDue THEN rep.avg ELSE 0,
                         beepCount |-> IF hourDue THEN rep.beepCount ELSE 0,
                         beeps |-> IF hourDue THEN rep.beeps ELSE << >>]
            /\ clock' = IF hourDue THEN UAdd(now, DelayMs(rep.beeps)) ELSE now
    /\ UNCHANGED <<sketch, pc, a_vars, s_vars, u_vars>>

NextFixed == F_setup \/ F_loop

----------------------------------------------------------------------------
(* Sound sketch ("listen to blink"): helpers.                              *)

\* what a read outside the array can return (undefined behaviour)
Garbage == {0, 777, 65535}

\* the values samples[idx] can yield
S_read(buf, idx) == IF idx \in DOMAIN buf THEN {buf[idx]} ELSE Garbage

\* samples[idx] = v; the array holds S_MAX_SAMPLES cells
S_store(buf, idx, v) ==
    IF idx \in DOMAIN buf THEN [buf EXCEPT ![idx] = v] ELSE buf

\* no element is shifted: temp goes back where it came from
S_insert_noShift(buf, j, temp) == [buf EXCEPT ![j + 1] = temp]

\* the while loop of sortSamples: shift the larger elements right, put temp
RECURSIVE S_insert(_, _, _)
S_insert(buf, j, temp) ==
    IF j >= 0 /\ buf[j] > temp
    THEN S_insert([buf EXCEPT ![j + 1] = buf[j]], j - 1, temp)
    ELSE [buf EXCEPT ![j + 1] = temp]

\* the for loop of sortSamples, from i on
RECURSIVE S_sortFrom(_, _, _)
S_sortFrom(buf, i, n) ==
    IF i < n THEN S_sortFrom(S_insert(buf, i - 1, buf[i]), i + 1, n) ELSE buf

\* the indices of samples[] the while loop and the store after it access;
\* j >= 0 is tested first, so samples[j] is not read for j = -1
RECURSIVE S_insertAccess(_, _, _)
S_insertAccess(buf, j, temp) ==
    IF j >= 0
    THEN {j} \cup (IF buf[j] > temp
                   THEN {j + 1} \cup S_insertAccess([buf EXCEPT ![j + 1] = buf[j]],
                                                    j - 1, temp)
                   ELSE {j + 1})
    ELSE {j + 1}

\* the indices of samples[] the for loop accesses, from i on
RECURSIVE S_sortAccessFrom(_, _, _)
S_sortAccessFrom(buf, i, n) ==
    IF i < n
    THEN {i} \cup S_insertAccess(buf, i - 1, buf[i])
             \cup S_sortAccessFrom(S_insert(buf, i - 1, buf[i]), i + 1, n)
    ELSE {}

\* the indices of samples[] a call of sortSamples accesses
sortSamplesAccess(buf, n) == S_sortAccessFrom(buf, 1, n)

\* the sort left out: the buffer stays as it was filled
sortSamples_skipped(buf, n) == buf

\* void sortSamples()
sortSamples(buf, n) == S_sortFrom(buf, 1, n)

\* the for loop of calculateThresholds: <<minLevel, maxLevel>> from i on
RECURSIVE S_minMax(_, _, _, _)
S_minMax(mm, buf, i, n) ==
    IF i < n
    THEN S_minMax(<<IF buf[i] < mm[1] THEN ToInt(buf[i]) ELSE mm[1],
                    IF buf[i] > mm[2] THEN ToInt(buf[i]) ELSE mm[2]>>,
                  buf, i + 1, n)
    ELSE mm

\* the indices the median block reads: sampleCount / 2 - 1 is unsigned
S_medianIdx(n) ==
    IF n % 2 = 0 THEN <<ToUInt(n \div 2 - 1), n \div 2>> ELSE <<n \div 2>>

\* void calculateThresholds(): every outcome it can have.  reads are the
\* indices of samples[] it reads itself (sortSamples apart).
calculateThresholds(buf, n) ==
    LET mm == S_minMax(<<ToInt(buf[0]), ToInt(buf[0])>>, buf, 1, n)
        sorted == sortSamples(buf, n)
        idx == S_medianIdx(n)
        reads == {0} \cup 1..(n - 1) \cup {idx[k] : k \in 1..Len(idx)}
    IN  IF n % 2 = 0
        THEN { [samples |-> sorted, minLevel |-> mm[1], maxLevel |-> mm[2],
                medianLevel |-> ToInt(ToUInt(lo + hi) \div 2), reads |-> reads]
               : lo \in S_read(sorted, idx[1]), hi \in S_read(sorted, idx[2]) }
        ELSE { [samples |-> sorted, minLevel |-> mm[1], maxLevel |-> mm[2],
                medianLevel |-> ToInt(m), reads |-> reads]
               : m \in S_read(sorted, idx[1]) }

\* the LED pins the LED phase drives HIGH for a reading
\* the comparisons made strict: a reading on a level falls one band higher
S_pattern_strict(soundValue, median, max) ==
    IF soundValue < median THEN {LED1}
    ELSE IF soundValue < max THEN {LED1, LED2}
    ELSE {LED1, LED2, LED3}

S_pattern(soundValue, median, max) ==
    IF soundValue <= median THEN {LED1}
    ELSE IF soundValue <= max THEN {LED1, LED2}
    ELSE {LED1, LED2, LED3}

\* lines 241-261: the pins left HIGH by the three digitalWrite of the branch
\* taken, delay(500), the three pins LOW, delay(500)
S_blinkSteps(pattern) ==
    << <<"leds", pattern>>, <<"delay", BLINK_MS>>,
       <<"leds", {}>>, <<"delay", BLINK_MS>> >>

----------------------------------------------------------------------------
(* Sound sketch: globals, setup() and loop().                              *)

S_NoOut == [sampled |-> FALSE, written |-> -1, calc |-> FALSE, reads |-> {},
            blink |-> FALSE, soundValue |-> -1, ledsOn |-> {}, steps |-> << >>,
            now |-> 0]

S_globals ==
    /\ samples = [i \in 0..(S_MAX_SAMPLES - 1) |-> 0]
    /\ s_sampleCount = 0
    /\ startTime = 0
    /\ samplingDone = FALSE
    /\ minLevel = 0 /\ medianLevel = 0 /\ maxLevel = 0
    /\ s_lastSampleTime = 0
    /\ s_leds = {}
    /\ s_out = S_NoOut
    /\ calcRuns = 0

S_setup ==
    /\ sketch = "sound" /\ pc = "boot"
    /\ \E d \in Gaps :
          /\ startTime' = UAdd(clock, d)
          /\ clock' = UAdd(clock, d)
    /\ pc' = "loop"
    /\ UNCHANGED <<sketch, samples, s_sampleCount, samplingDone, minLevel,
                   medianLevel, maxLevel, s_lastSampleTime, s_leds, s_out,
                   calcRuns, a_vars, f_vars, u_vars>>

\* the test of lines 221-223; m1 and m2 are its two reads of millis()
S_sampleDue(m1, m2) ==
    /\ Due(m1, s_lastSampleTime, S_SAMPLE_INTERVAL)
    /\ USub(m2, startTime) < SAMPLING_DURATION
    /\ s_sampleCount < S_MAX_SAMPLES

\* the end of the sampling window never noticed
S_windowOver_never(m4, n) == FALSE

\* the test of line 230; m4 is its read of millis(), n the sample count
S_windowOver(m4, n) ==
    USub(m4, startTime) >= SAMPLING_DURATION \/ n >= S_MAX_SAMPLES

\* the phase test lost: the sampling branch runs on every call
S_isSampling_always == TRUE

\* if (!samplingDone) of line 218
S_isSampling == ~samplingDone

\* loop() in the sampling phase
S_sampling ==
    /\ sketch = "sound" /\ pc = "loop"
    /\ S_isSampling
    /\ \E gap \in Gaps, g2 \in InGaps, g3 \in InGaps, g4 \in InGaps :
       \E soundValue \in AnalogRead(S_sampleDue(UAdd(clock, gap),
                                                UAdd(UAdd(clock, gap), g2))) :
        LET m1 == UAdd(clock, gap)
            m2 == UAdd(m1, g2)
            due == S_sampleDue(m1, m2)
            m3 == IF due THEN UAdd(m2, g3) ELSE m2
            buf1 == IF due THEN S_store(samples, s_sampleCount, soundValue)
                    ELSE samples
            cnt1 == IF due THEN s_sampleCount + 1 ELSE s_sampleCount
            m4 == UAdd(m3, g4)
            over == S_windowOver(m4, cnt1)
        IN  /\ s_lastSampleTime' = IF due THEN m3 ELSE s_lastSampleTime
            /\ s_sampleCount' = cnt1
            /\ IF over
               THEN \E r \in calculateThresholds(buf1, cnt1) :
                      /\ samples' = r.samples
                      /\ minLevel' = r.minLevel
                      /\ medianLevel' = r.medianLevel
                      /\ maxLevel' = r.maxLevel
                      /\ s_out' = [S_NoOut EXCEPT !.sampled = due,
                                     !.written = IF due THEN s_sampleCount ELSE -1,
                                     !.calc = TRUE, !.reads = r.reads,
                                     !.now = m4]
               ELSE /\ samples' = buf1
                    /\ UNCHANGED <<minLevel, medianLevel, maxLevel>>
                    /\ s_out' = [S_NoOut EXCEPT !.sampled = due,
                                   !.written = IF due THEN s_sampleCount ELSE -1,
                                   !.now = m4]
            /\ samplingDone' = over
            /\ calcRuns' = IF over THEN calcRuns + 1 ELSE calcRuns
            /\ clock' = IF over THEN UAdd(m4, DONE_DELAY_MS) ELSE m4
    /\ UNCHANGED <<sketch, pc, startTime, s_leds, a_vars, f_vars, u_vars>>

\* loop() in the LED control phase
S_blink ==
    /\ sketch = "sound" /\ pc = "loop"
    /\ ~S_isSampling
    /\ \E gap \in Gaps, soundValue \in Readings :
        LET pattern == S_pattern(soundValue, medianLevel, maxLevel)
            steps == S_blinkSteps(pattern)
        IN  /\ s_out' = [S_NoOut EXCEPT !.blink = TRUE,
                           !.soundValue = soundValue,
                           !.ledsOn = pattern, !.steps = steps]
            /\ s_leds' = steps[3][2]
            /\ clock' = UAdd(clock, gap + DelayMs(steps))
    /\ UNCHANGED <<sketch, pc, samples, s_sampleCount, startTime, samplingDone,
                   minLevel, medianLevel, maxLevel, s_lastSampleTime, calcRuns,
                   a_vars, f_vars, u_vars>>

S_loop == S_sampling \/ S_blink

NextSound == S_setup \/ S_loop

----------------------------------------------------------------------------
(* The functions of the sketches, each called once on an argument drawn    *)
(* from a bounded set: fn is the function, arg its arguments, res what it  *)
(* returned (pc = "ret").                                                  *)

\* readings and the values just outside of 0..ADC_MAX
Values == (0 - Margin)..(ADC_MAX + 1 + Margin)

\* <<minv, maxv>>: narrow ranges, the sentinel range, a reading repeated,
\* ranges in mid scale and near full scale of every width modulo 4
EstRanges ==
    {<<lo, lo + w>> : lo \in {0, 3, 500}, w \in 0..MaxRange}
    \cup {<<ADC_MAX, 0>>, <<ADC_MAX, ADC_MAX>>}
    \cup {<<200, 700 + d>> : d \in 0..3}
    \cup {<<lo, ADC_MAX - d>> : lo \in {0, 1}, d \in 0..3}

\* the values a range is tried with: around the range and the band limits
EstValues(r) ==
    IF r[2] - r[1] > MaxRange \/ r[2] - r[1] <= TOLERANCE
    THEN Values
    ELSE (r[1] - Margin)..(r[2] + Margin)

\* a buffer of len cells whose first n hold readings, the rest never written
Buffers(len, n) ==
    {b \in [0..(len - 1) -> Readings \cup {0}] : \A i \in n..(len - 1) : b[i] = 0}

\* a buffer holding the readings of the sequence s, in that order
BufferOf(s) == [i \in 0..(Len(s) - 1) |-> s[i + 1]]

\* the sample sets [5,1,3] and [4,2,6,8]
ExampleBuffers == {<<BufferOf(<<5, 1, 3>>), 3>>, <<BufferOf(<<4, 2, 6, 8>>), 4>>}

\* the values the clock can show
ClockTimes == {k * TickMs : k \in 0..((ClockMod \div TickMs) - 1)}

\* the intervals of the periodic checks
Intervals == {SAMPLE_INTERVAL_MS, HOUR_INTERVAL_MS, DAY_INTERVAL_MS}

\* an hour of len readings, all at full scale
FullScaleHour(len) == <<[i \in 0..(len - 1) |-> ADC_MAX], len>>

\* the sums count readings can have
RECURSIVE Sums(_)
Sums(count) ==
    IF count = 0 THEN {0}
    ELSE {x + r : x \in Sums(count - 1), r \in Readings}

UnitArgs(f) ==
    CASE f = "A_estimateLEDs" ->
           {<<v, r[1], r[2]>> : <<v, r>> \in
               {<<v, r>> \in Values \X EstRanges : v \in EstValues(r)}}
      [] f = "F_estimateLEDs" -> {<<v>> : v \in Values}
      [] f = "beepCount" -> {<<c>> : c \in (0 - Margin)..(MAX_BEEPS + Margin)}
      [] f = "F_beepLoop" -> {<<c>> : c \in 0..3}
      [] f = "A_hourlyReport" ->
           {<<x[1], x[2], r[1], r[2]>> : <<x, r>> \in
               {<<x, r>> \in (UNION {Sums(c) \X {c} : c \in 0..UnitLen})
                              \X {<<ADC_MAX, 0>>, <<0, ADC_MAX>>, <<0, 300>>,
                                  <<300, 300>>} : TRUE}}
      [] f = "F_hourlyReport" ->
           UNION {Buffers(UnitLen, n) \X {n} : n \in 0..UnitLen}
           \cup {FullScaleHour(OverflowLen)}
      [] f = "Due" -> ClockTimes \X ClockTimes \X Intervals
      [] f = "sortSamples" ->
           ([0..(UnitLen - 1) -> Readings] \X (0..UnitLen)) \cup ExampleBuffers
      [] f = "calculateThresholds" ->
           UNION {Buffers(UnitLen, n) \X {n} : n \in 0..UnitLen}
           \cup ExampleBuffers

UnitFns == {"A_estimateLEDs", "F_estimateLEDs", "beepCount", "F_beepLoop",
            "A_hourlyReport", "F_hourlyReport", "calculateThresholds", "Due",
            "sortSamples"}

U_idle == fn = "none" /\ arg = << >> /\ res = << >>

Call(f, results) ==
    /\ sketch = "unit" /\ pc = "call" /\ fn = f
    /\ res' \in results
    /\ pc' = "ret"
    /\ UNCHANGED <<sketch, clock, fn, arg, a_vars, f_vars, s_vars>>

U_A_estimateLEDs ==
    Call("A_estimateLEDs", {A_estimateLEDs(arg[1], arg[2], arg[3])})
U_F_estimateLEDs == Call("F_estimateLEDs", {F_estimateLEDs(arg[1])})
U_beepCount == Call("beepCount", {beepCount(arg[1])})
U_F_beepLoop == Call("F_beepLoop", {F_beepLoop(0, arg[1])})
U_A_hourlyReport ==
    Call("A_hourlyReport", {A_hourlyReport(arg[1], arg[2], arg[3], arg[4])})
U_F_hourlyReport == Call("F_hourlyReport", {F_hourlyReport(arg[1], arg[2])})
U_calculateThresholds ==
    Call("calculateThresholds", calculateThresholds(arg[1], arg[2]))

\* a timer armed at arg[1], checked arg[2] ms later against interval arg[3],
\* re-armed with last += interval and checked again at the same clock value
U_Due ==
    Call("Due",
         {[due |-> Due(UAdd(arg[1], arg[2]), arg[1], arg[3]),
           rearmed |-> UAdd(arg[1], arg[3]),
           dueAgain |-> Due(UAdd(arg[1], arg[2]), UAdd(arg[1], arg[3]), arg[3])]})

\* sortSamples() on the array arg[1] with sampleCount = arg[2]
U_sortSamples ==
    Call("sortSamples",
         {[samples |-> sortSamples(arg[1], arg[2]), sampleCount |-> arg[2],
           accessed |-> sortSamplesAccess(arg[1], arg[2])]})

NextUnit ==
    \/ U_A_estimateLEDs
    \/ U_F_estimateLEDs
    \/ U_beepCount
    \/ U_F_beepLoop
    \/ U_A_hourlyReport
    \/ U_F_hourlyReport
    \/ U_calculateThresholds
    \/ U_Due
    \/ U_sortSamples

----------------------------------------------------------------------------
Globals == A_globals /\ F_globals /\ S_globals

\* a device freshly flashed with one of the sketches
Init ==
    /\ sketch \in {"adaptive", "fixed", "sound"}
    /\ pc = "boot"
    /\ clock = 0
    /\ Globals
    /\ U_idle

Next == NextAdaptive \/ NextFixed \/ NextSound

Spec == Init /\ [][Next]_vars

InitAdaptive == Init /\ sketch = "adaptive"
SpecAdaptive == InitAdaptive /\ [][NextAdaptive]_vars

InitFixed == Init /\ sketch = "fixed"
SpecFixed == InitFixed /\ [][NextFixed]_vars

InitSound == Init /\ sketch = "sound"
SpecSound == InitSound /\ [][NextSound]_vars

\* the sound sketch with loop() called again and again while the clock
\* advances: setup() runs, and calls of loop() that find the clock advanced
\* keep coming
SoundFairness ==
    /\ WF_vars(S_setup)
    /\ WF_vars(S_loop /\ clock' # clock)
SpecSoundFair == SpecSound /\ SoundFairness

\* the two light sketches, which report every hour
InitLight == Init /\ sketch \in {"adaptive", "fixed"}
NextLight == NextAdaptive \/ NextFixed
SpecLight == InitLight /\ [][NextLight]_vars

\* the two sketches that keep their readings in a fixed-size array
InitBuffered == Init /\ sketch \in {"fixed", "sound"}
NextBuffered == NextFixed \/ NextSound
SpecBuffered == InitBuffered /\ [][NextBuffered]_vars

\* one function about to be called on one argument
InitUnit ==
    /\ sketch = "unit"
    /\ pc = "call"
    /\ clock = 0
    /\ Globals
    /\ fn \in UnitFns
    /\ arg \in UnitArgs(fn)
    /\ res = << >>

SpecUnit == InitUnit /\ [][NextUnit]_vars

----------------------------------------------------------------------------
(* Claims.                                                                 *)

\* C1: in the fixed-threshold and in the sound sketch sampleCount never
\* exceeds MAX_SAMPLES and no cell at index >= MAX_SAMPLES is written; in the
\* fixed-threshold sketch a sample taken while sampleCount = MAX_SAMPLES is
\* dropped: the buffer is unchanged and the count the rest of the call sees
\* is still MAX_SAMPLES.
C1_Bounded ==
    /\ f_sampleCount <= F_MAX_SAMPLES
    /\ s_sampleCount <= S_MAX_SAMPLES
    /\ f_out.written < F_MAX_SAMPLES
    /\ s_out.written < S_MAX_SAMPLES
    /\ f_out.samples <= F_MAX_SAMPLES

C1_Dropped ==
    (f_sampleCount = F_MAX_SAMPLES /\ f_out'.sampled) =>
        /\ lightSamples' = lightSamples
        /\ f_out'.written = -1
        /\ IF f_out'.hourly THEN f_out'.samples = F_MAX_SAMPLES
                            ELSE f_sampleCount' = F_MAX_SAMPLES

C1_BufferNeverOverrun == [] C1_Bounded /\ [][C1_Dropped]_vars

\* a sample arrived with the buffer full and was dropped
C1_Witness ==
    /\ sketch = "fixed"
    /\ f_out.sampled /\ f_out.written = -1
    /\ f_out.hourly /\ f_out.samples = F_MAX_SAMPLES

\* C2: in the adaptive sketch, a call of loop() that reads a clock value
\* with now - dayStartTime >= DAY_INTERVAL_MS sets dayMin to 1023 and
\* dayMax to 0 and advances dayStartTime by exactly DAY_INTERVAL_MS (no other
\* call changes dayStartTime); the first sample after that, of reading r,
\* leaves dayMin = r and dayMax = r.
C2_Reset ==
    (sketch = "adaptive" /\ pc = "loop") =>
        IF Due(a_out'.now, a_dayStartTime, DAY_INTERVAL_MS)
        THEN /\ a_out'.reset
             /\ dayMin' = 1023 /\ dayMax' = 0
             /\ a_dayStartTime' = UAdd(a_dayStartTime, DAY_INTERVAL_MS)
        ELSE /\ ~a_out'.reset
             /\ a_dayStartTime' = a_dayStartTime

C2_FirstSample ==
    (a_dayCount = 0 /\ a_out'.sampled /\ ~a_out'.reset) =>
        /\ a_out'.lightValue \in 0..1023
        /\ dayMin' = a_out'.lightValue
        /\ dayMax' = a_out'.lightValue

C2_DailyReset == [][C2_Reset /\ C2_FirstSample]_vars

\* the first sample after a daily reset has been taken
C2_Witness ==
    /\ sketch = "adaptive"
    /\ a_dayStartTime >= DAY_INTERVAL_MS
    /\ a_out.sampled /\ a_dayCount = 1
    /\ dayMin = a_out.lightValue /\ dayMax = a_out.lightValue

\* C3: in the sound sketch samplingDone starts false and never goes back to
\* false; calculateThresholds runs exactly once, in the call that sets
\* samplingDone; afterwards the three levels and the buffer never change.
C3_Once ==
    /\ (pc = "boot" => ~samplingDone)
    /\ calcRuns = (IF samplingDone THEN 1 ELSE 0)

C3_Frozen ==
    /\ samplingDone =>
          /\ samplingDone'
          /\ UNCHANGED <<minLevel, medianLevel, maxLevel, samples, calcRuns>>
    /\ (calcRuns' # calcRuns) => (~samplingDone /\ samplingDone' /\ s_out'.calc)

C3_OneShot == [] C3_Once /\ [][C3_Frozen]_vars

\* the LED phase is running: sampling is over, the levels are in use
C3_Witness ==
    /\ sketch = "sound"
    /\ samplingDone /\ s_out.blink /\ calcRuns = 1
    /\ maxLevel > minLevel

\* C4: when calculateThresholds runs with sampleCount = 0 it reads no element
\* outside the array and sets minLevel, medianLevel and maxLevel to 0.
C4_EmptyBufferFallback ==
    (fn = "calculateThresholds" /\ pc = "ret" /\ arg[2] = 0) =>
        /\ res.reads \subseteq DOMAIN arg[1]
        /\ res.minLevel = 0 /\ res.medianLevel = 0 /\ res.maxLevel = 0

\* in the sound sketch as it runs under this clock, calculateThresholds is
\* only reached with at least one sample in the buffer
C4_NeverEmptyInLoop == s_out.calc => s_sampleCount >= 1

\* C5: an hourly report over zero samples divides nothing, reports 0 and
\* beeps zero times, in the adaptive sketch (hourCount = 0) and in the
\* fixed-threshold sketch (sampleCount = 0).
C5_ZeroSamples ==
    /\ (fn = "A_hourlyReport" /\ pc = "ret" /\ arg[2] = 0) =>
          /\ ~res.divided
          /\ res.avg = 0 /\ res.hourlyEstimate = 0
          /\ res.beeps = << >>
    /\ (fn = "F_hourlyReport" /\ pc = "ret" /\ arg[2] = 0) =>
          /\ ~res.divided
          /\ res.avg = 0 /\ res.beepCount = 0
          /\ res.beeps = << >>

\* in the sketches as they run under this clock a sample is due whenever the
\* hour is, so the hourly block never meets an empty hour there
C5_NeverEmptyInLoop ==
    /\ a_out.hourly => a_out.samples >= 1
    /\ f_out.hourly => f_out.samples >= 1

\* the hourly block of the adaptive sketch has run on an empty hour
C5_Witness ==
    /\ fn = "A_hourlyReport" /\ pc = "ret"
    /\ arg[1] = 0 /\ arg[2] = 0
    /\ res.hourlyEstimate = 0

\* n pulses (tone, 200 ms, noTone) with one 200 ms delay between two
\* consecutive pulses and none after the last
PulseTrain(n) ==
    [p \in 1..(IF n > 0 THEN 4 * n - 1 ELSE 0) |->
        CASE p % 4 = 1 -> <<"tone", 1000>>
          [] p % 4 = 2 -> <<"delay", 200>>
          [] p % 4 = 3 -> <<"noTone", 0>>
          [] OTHER -> <<"delay", 200>>]

\* C6: beepCount(count) emits min(count, 3) pulses for count > 0 and nothing
\* for count <= 0; a pulse is tone, 200 ms, noTone; one 200 ms delay
\* separates two consecutive pulses and none follows the last.
C6_BeepCount ==
    (fn = "beepCount" /\ pc = "ret") =>
        res = PulseTrain(IF arg[1] <= 0 THEN 0 ELSE Min2(arg[1], 3))

\* beepCount(5): three pulses and two gaps
C6_Witness ==
    /\ fn = "beepCount" /\ pc = "ret" /\ arg[1] = 5
    /\ Len(res) = 11 /\ res[11] = <<"noTone", 0>>

\* C7: the hourly beeps of the fixed-threshold sketch for an estimate n are
\* n pulses with a 200 ms gap between consecutive pulses only, none after the
\* last pulse.
C7_NoTrailingGap ==
    (sketch = "fixed" /\ f_out.hourly) =>
        /\ f_out.beepCount \in 0..3
        /\ f_out.beeps = PulseTrain(f_out.beepCount)

\* C8: for 0 <= minv < maxv <= 1023 with maxv - minv > 5 the breakpoints are
\* t1 = minv + range/4, t2 = minv + range/2, t3 = minv + 3*range/4 (floor),
\* minv < t1 <= t2 <= t3 <= maxv; the estimate is in 0..3, non-decreasing in
\* value, 0 at and below minv, 3 at and above maxv.
C8_Quartiles ==
    (/\ fn = "A_estimateLEDs" /\ pc = "ret"
     /\ 0 <= arg[2] /\ arg[2] < arg[3] /\ arg[3] <= 1023
     /\ arg[3] - arg[2] > 5) =>
        LET value == arg[1]
            minv == arg[2]
            maxv == arg[3]
            t == A_thresholds(minv, maxv)
        IN  /\ t[1] = minv + ((maxv - minv) \div 4)
            /\ t[2] = minv + ((maxv - minv) \div 2)
            /\ t[3] = minv + ((3 * (maxv - minv)) \div 4)
            /\ minv < t[1] /\ t[1] <= t[2] /\ t[2] <= t[3] /\ t[3] <= maxv
            /\ res \in 0..3
            /\ res <= A_estimateLEDs(value + 1, minv, maxv)
            /\ (value <= minv => res = 0)
            /\ (value >= maxv => res = 3)
            /\ (res >= 1 <=> value >= t[1])
            /\ (res >= 2 <=> value >= t[2])
            /\ (res >= 3 <=> value >= t[3])

\* the narrowest learned range, classified at its upper end
C8_Witness ==
    /\ fn = "A_estimateLEDs" /\ pc = "ret"
    /\ arg[3] - arg[2] = 6 /\ arg[1] = arg[3]
    /\ res = 3

\* C9: when maxv - minv <= 5 (the sentinel range 1023, 0 included) the
\* estimate is floor(value * 4 / 1024) clamped to 0..3.
C9_Fallback ==
    (fn = "A_estimateLEDs" /\ pc = "ret" /\ arg[3] - arg[2] <= 5) =>
        LET q == (arg[1] * 4) \div 1024
        IN  res = (IF q < 0 THEN 0 ELSE IF q > 3 THEN 3 ELSE q)

\* value 1024 with the sentinel range: clamped to 3
C9_Witness ==
    /\ fn = "A_estimateLEDs" /\ pc = "ret"
    /\ arg = <<1024, 1023, 0>>
    /\ res = 3

\* C10: the fixed-threshold estimate is in 0..3, non-decreasing in the
\* reading, 0 below 300, 1 in [300, 600), 2 in [600, 900), 3 from 900 on.
C10_FixedBands ==
    (fn = "F_estimateLEDs" /\ pc = "ret") =>
        LET value == arg[1]
        IN  /\ ledThreshold1 = 300 /\ ledThreshold2 = 600 /\ ledThreshold3 = 900
            /\ res \in 0..3
            /\ res <= F_estimateLEDs(value + 1)
            /\ res = (IF value < 300 THEN 0
                      ELSE IF value < 600 THEN 1
                      ELSE IF value < 900 THEN 2
                      ELSE 3)

\* a reading on the highest threshold
C10_Witness ==
    /\ fn = "F_estimateLEDs" /\ pc = "ret"
    /\ arg[1] = 900 /\ res = 3

\* the k-th smallest (k from 1) of the first n cells of buf
Kth(buf, n, k) ==
    CHOOSE x \in {buf[i] : i \in 0..(n - 1)} :
        /\ Cardinality({i \in 0..(n - 1) : buf[i] < x}) < k
        /\ k <= Cardinality({i \in 0..(n - 1) : buf[i] <= x})

\* C11: for a buffer of n >= 1 readings in 0..1023 calculateThresholds sets
\* minLevel to the smallest and maxLevel to the largest stored reading, and
\* medianLevel to the middle element of the sorted buffer for odd n, to the
\* floor of the mean of the two middle elements for even n.
C11_MinMedianMax ==
    (/\ fn = "calculateThresholds" /\ pc = "ret" /\ arg[2] >= 1
     /\ \A i \in 0..(arg[2] - 1) : arg[1][i] \in 0..1023) =>
        LET buf == arg[1]
            n == arg[2]
        IN  /\ res.minLevel = Kth(buf, n, 1)
            /\ res.maxLevel = Kth(buf, n, n)
            /\ res.medianLevel =
                  (IF n % 2 = 1 THEN Kth(buf, n, (n + 1) \div 2)
                   ELSE (Kth(buf, n, n \div 2) + Kth(buf, n, n \div 2 + 1))
                            \div 2)

\* the sample set [4,2,6,8]: median 5
C11_Witness ==
    /\ fn = "calculateThresholds" /\ pc = "ret"
    /\ arg = <<BufferOf(<<4, 2, 6, 8>>), 4>>
    /\ res.minLevel = 2 /\ res.medianLevel = 5 /\ res.maxLevel = 8

\* C12: in the fixed-threshold sketch a sample taken while the buffer is full
\* is dropped and not classified: it is neither stored nor passed to
\* estimateLEDs.
C12_DroppedNotClassified ==
    (sketch = "fixed" /\ f_out.sampled /\ f_out.written = -1) =>
        f_out.nLEDs = -1

\* C13: in the LED phase of the sound sketch every call of loop() reads the
\* sensor once, turns on exactly LED1 for a reading <= medianLevel, LED1 and
\* LED2 for medianLevel < reading <= maxLevel, all three otherwise, holds the
\* pattern 500 ms, then holds all three off 500 ms; LED3 on implies LED2 on
\* implies LED1 on, and all LEDs are off when the call ends.
C13_Pattern ==
    (sketch = "sound" /\ s_out.blink) =>
        LET r == s_out.soundValue
            on == s_out.ledsOn
        IN  /\ r \in 0..1023
            /\ on = (IF r <= medianLevel THEN {2}
                     ELSE IF r <= maxLevel THEN {2, 3}
                     ELSE {2, 3, 4})
            /\ s_out.steps = << <<"leds", on>>, <<"delay", 500>>,
                                <<"leds", {}>>, <<"delay", 500>> >>
            /\ (LED3 \in on => LED2 \in on) /\ (LED2 \in on => LED1 \in on)
            /\ s_leds = {}

C13_Cadence ==
    (sketch = "sound" /\ pc = "loop" /\ samplingDone) =>
        /\ s_out'.blink
        /\ USub(clock', clock) >= 1000

C13_LedPhase == [] C13_Pattern /\ [][C13_Cadence]_vars

\* a reading between the median and the maximum: LED1 and LED2
C13_Witness ==
    /\ sketch = "sound" /\ s_out.blink
    /\ medianLevel < s_out.soundValue /\ s_out.soundValue <= maxLevel
    /\ s_out.ledsOn = {LED1, LED2}

\* C14: a periodic check on a timer armed at clock value L, made after a true
\* elapsed time e below the wrap period, is true exactly when e >= interval,
\* also when the clock wrapped through 0 in between; after last += interval
\* (which may itself wrap) the check is true exactly when e - interval >=
\* interval.
C14_WrapSafe ==
    (fn = "Due" /\ pc = "ret") =>
        LET L == arg[1]
            e == arg[2]
            interval == arg[3]
        IN  /\ res.due <=> e >= interval
            /\ res.rearmed = (L + interval) % ClockMod
            /\ e >= interval => (res.dueAgain <=> e - interval >= interval)

\* the clock wrapped between arming and the check, and the re-arming wraps
C14_Witness ==
    /\ fn = "Due" /\ pc = "ret"
    /\ arg[1] + arg[2] >= ClockMod /\ arg[1] + arg[3] >= ClockMod
    /\ res.rearmed < arg[1]
    /\ res.due /\ ~res.dueAgain

\* the sum of the first n cells of buf, as an integer: the sum over the
\* values v that occur of v times the number of cells holding v
RECURSIVE SumValues(_, _, _)
SumValues(vals, buf, n) ==
    IF vals = {} THEN 0
    ELSE LET v == CHOOSE x \in vals : TRUE
         IN  v * Cardinality({i \in 0..(n - 1) : buf[i] = v})
             + SumValues(vals \ {v}, buf, n)

SumOf(buf, n) == SumValues({buf[i] : i \in 0..(n - 1)}, buf, n)

\* C15: for a buffer of n >= 1 stored readings in 0..1023 the hourly average
\* of the fixed-threshold sketch is floor(sum / n), the sum fits the int
\* accumulator, and the average lies between the smallest and the largest
\* stored reading.
C15_AverageExact ==
    (/\ fn = "F_hourlyReport" /\ pc = "ret" /\ arg[2] >= 1
     /\ \A i \in 0..(arg[2] - 1) : arg[1][i] \in 0..1023) =>
        LET buf == arg[1]
            n == arg[2]
        IN  /\ res.avg = SumOf(buf, n) \div n
            /\ F_accumulate(0, buf, 0, n) = SumOf(buf, n)
            /\ Kth(buf, n, 1) <= res.avg /\ res.avg <= Kth(buf, n, n)

\* C16: every hourly report covers the samples taken since the previous one.
\* Adaptive sketch: a call of loop() that reports ends with hourSum = 0 and
\* hourCount = 0, with or without samples, and reports the sum and the count
\* gathered since they were last cleared; a call that does not report only
\* adds its sample; the report leaves dayMin and dayMax as the sampling step
\* left them.  Fixed-threshold sketch: a report ends with sampleCount = 0,
\* averages the cells 0 .. sampleCount - 1, and the next stored sample goes to
\* index 0.
C16_Adaptive ==
    (sketch = "adaptive" /\ pc = "loop") =>
        LET s == a_out'.sampled
            lv == a_out'.lightValue
            sum1 == IF s THEN hourSum + lv ELSE hourSum
            cnt1 == IF s THEN hourCount + 1 ELSE hourCount
        IN  /\ IF a_out'.hourly
               THEN /\ hourSum' = 0 /\ hourCount' = 0
                    /\ a_out'.samples = cnt1
                    /\ cnt1 > 0 => a_out'.avg = sum1 \div cnt1
               ELSE hourSum' = sum1 /\ hourCount' = cnt1
            /\ ~a_out'.reset =>
                  /\ dayMin' = (IF s /\ lv < dayMin THEN lv ELSE dayMin)
                  /\ dayMax' = (IF s /\ lv > dayMax THEN lv ELSE dayMax)

C16_Fixed ==
    (sketch = "fixed" /\ pc = "loop") =>
        /\ f_out'.hourly =>
              /\ f_sampleCount' = 0
              /\ f_out'.samples > 0 =>
                    f_out'.avg = SumOf(lightSamples', f_out'.samples)
                                    \div f_out'.samples
        /\ (f_sampleCount = 0 /\ f_out'.sampled) => f_out'.written = 0

C16_HourlyWindow == [][C16_Adaptive /\ C16_Fixed]_vars

\* the second hourly report of the adaptive sketch, over two samples
C16_Witness ==
    /\ sketch = "adaptive" /\ a_out.hourly /\ ~a_out.reset
    /\ a_lastHourTime >= 2 * HOUR_INTERVAL_MS
    /\ a_out.samples = 2 /\ a_out.avg > 0
    /\ hourSum = 0 /\ hourCount = 0

\* C17: sortSamples leaves samples[0 .. sampleCount - 1] ascending and holding
\* the same multiset of values as before, for every sampleCount from 0 to the
\* capacity; it changes neither sampleCount nor a cell at an index >=
\* sampleCount, and accesses no index outside 0 .. sampleCount - 1.
C17_Sorted ==
    (fn = "sortSamples" /\ pc = "ret") =>
        LET buf == arg[1]
            n == arg[2]
            out == res.samples
        IN  /\ DOMAIN out = DOMAIN buf
            /\ \A i \in 0..(n - 2) : out[i] <= out[i + 1]
            /\ \A v \in {buf[i] : i \in DOMAIN buf} \cup {out[i] : i \in DOMAIN out} :
                  Cardinality({i \in 0..(n - 1) : out[i] = v})
                      = Cardinality({i \in 0..(n - 1) : buf[i] = v})
            /\ \A i \in DOMAIN buf : i >= n => out[i] = buf[i]
            /\ res.sampleCount = n
            /\ res.accessed \subseteq 0..(n - 1)

\* a full buffer in descending order has been sorted
C17_Witness ==
    /\ fn = "sortSamples" /\ pc = "ret"
    /\ arg[2] = UnitLen /\ arg[1][0] = 1023 /\ arg[1][UnitLen - 1] = 0
    /\ res.samples[0] = 0 /\ res.samples[UnitLen - 1] = 1023
    /\ res.accessed = 0..(UnitLen - 1)

\* C18: in a call of loop() of the adaptive sketch in which the hourly report
\* and the daily reset are both due, a sample due in that call is first
\* folded into the hourly sum and into the old day's range; the hourly
\* estimate and the beeps are computed from that range; the reset to
\* (1023, 0) comes last.
C18_ReportBeforeReset ==
    (sketch = "adaptive" /\ pc = "loop" /\ a_out'.hourly /\ a_out'.reset) =>
        LET s == a_out'.sampled
            lv == a_out'.lightValue
            sum1 == IF s THEN hourSum + lv ELSE hourSum
            cnt1 == IF s THEN hourCount + 1 ELSE hourCount
            min1 == IF s /\ lv < dayMin THEN lv ELSE dayMin
            max1 == IF s /\ lv > dayMax THEN lv ELSE dayMax
        IN  /\ a_out'.samples = cnt1
            /\ cnt1 > 0 =>
                  /\ a_out'.avg = sum1 \div cnt1
                  /\ a_out'.hourlyEstimate =
                        A_estimateLEDs(sum1 \div cnt1, min1, max1)
            /\ a_out'.beeps = beepCount(a_out'.hourlyEstimate)
            /\ s => a_out'.estimate = A_estimateLEDs(lv, min1, max1)
            /\ dayMin' = 1023 /\ dayMax' = 0

C18_SameCall == [][C18_ReportBeforeReset]_vars

\* report, reset and a sample in one call, with an estimate that the reset
\* range would not have given
C18_Witness ==
    /\ sketch = "adaptive"
    /\ a_out.hourly /\ a_out.reset /\ a_out.sampled
    /\ dayMin = 1023 /\ dayMax = 0
    /\ a_out.hourlyEstimate # A_estimateLEDs(a_out.avg, 1023, 0)

\* C19: in the adaptive sketch, whenever at least one sample has been taken
\* since setup or since the latest daily reset, 0 <= dayMin <= dayMax <= 1023
\* and every reading taken since lies in dayMin .. dayMax (dayMin and dayMax
\* are the smallest and the largest of them); without a reset dayMin never
\* increases and dayMax never decreases; only a sample and the daily reset
\* change them.
C19_Range ==
    (sketch = "adaptive" /\ a_dayCount >= 1) =>
        /\ 0 <= dayMin /\ dayMin <= dayMax /\ dayMax <= 1023
        /\ a_daySeen # {}
        /\ \A r \in a_daySeen : dayMin <= r /\ r <= dayMax
        /\ dayMin \in a_daySeen /\ dayMax \in a_daySeen

C19_Monotone ==
    /\ (sketch = "adaptive" /\ ~a_out'.reset) =>
          dayMin' <= dayMin /\ dayMax' >= dayMax
    /\ (dayMin' # dayMin \/ dayMax' # dayMax) =>
          a_out'.sampled \/ a_out'.reset

C19_LearnedRange == [] C19_Range /\ [][C19_Monotone]_vars

\* two different readings learned after a daily reset
C19_Witness ==
    /\ sketch = "adaptive"
    /\ a_dayStartTime >= DAY_INTERVAL_MS
    /\ a_dayCount >= 2 /\ Cardinality(a_daySeen) >= 2
    /\ dayMin < dayMax

\* C20: in the sound sketch, with the clock advancing and loop() called
\* again and again, samplingDone eventually becomes true; it becomes true in
\* the first call whose test finds millis() - startTime >= SAMPLING_DURATION
\* or sampleCount at MAX_SAMPLES, and in no earlier call; with at least one
\* sample collected, minLevel <= medianLevel <= maxLevel throughout the LED
\* phase.
C20_Latest ==
    (sketch = "sound" /\ pc = "loop" /\ ~samplingDone) =>
        (samplingDone' <=>
            \/ USub(s_out'.now, startTime) >= SAMPLING_DURATION
            \/ s_sampleCount' >= S_MAX_SAMPLES)

C20_Ordered ==
    (sketch = "sound" /\ samplingDone /\ s_sampleCount >= 1) =>
        minLevel <= medianLevel /\ medianLevel <= maxLevel

C20_SamplingEnds ==
    /\ <>samplingDone
    /\ [] C20_Ordered
    /\ [][C20_Latest]_vars

\* sampling has just been ended by the clock, before the buffer was full
C20_Witness ==
    /\ sketch = "sound" /\ samplingDone /\ s_out.calc
    /\ USub(s_out.now, startTime) >= SAMPLING_DURATION
    /\ s_sampleCount >= 1 /\ s_sampleCount < S_MAX_SAMPLES
    /\ minLevel <= medianLevel /\ medianLevel <= maxLevel
=============================================================================
